---- MODULE Spec2Model ----
(***************************************************************************)
(* Model of the chat relay: the hub event loop (hub.go), the per-session   *)
(* inbound and outbound pumps and the rate limiter (client.go), and the    *)
(* message validator (message.go).                                         *)
(*                                                                         *)
(* Every channel of the hub (register, unregister, broadcast,              *)
(* privateMessage) is unbuffered, so a send completes only when the hub is *)
(* at its select statement: each HubRecv* action is the rendezvous of      *)
(* one sender with the hub, followed by the whole handler of that case.    *)
(* A send the hub goroutine itself makes on one of its own channels has no *)
(* receiver; the hub then stays at that statement.                         *)
(*                                                                         *)
(* Time is a coarse clock (now) that counts half rate-limit windows; the   *)
(* idle timeout is scaled down but stays longer than the window.  A tick   *)
(* is far longer than any handler or time.Sleep call takes.                *)
(***************************************************************************)
EXTENDS Integers, Sequences, FiniteSets, TLC

\* ---- bounds ----
QueueCap   == 2      \* capacity of Client.send (256 in client.go:365)
MaxFrames  == 3      \* inbound frames read over the whole run
LiveFrames == 2      \* inbound frames read over a run of LiveSpec
PrivFrames == 4      \* inbound frames and directed sends over a run of PrivSpec
RateFrames == 4      \* chat frames read over a run of RateSpec
ErrFrames  == 4      \* inbound frames and directed sends over a run of ErrSpec
AcceptFrames == 2    \* inbound frames read over a run of AcceptSpec
WriteFrames == 2     \* inbound frames read over a run of WriteSpec
OrderFrames == 3     \* chat frames read over a run of OrderSpec
OrderTime  == 1      \* clock ticks of a run of OrderSpec or ChatSpec
SizeFrames == 3      \* inbound frames read over a run of SizeSpec
ProtoFrames == 3     \* inbound frames read over a run of ProtoSpec
ChatFrames == 2      \* inbound frames read over a run of ChatSpec
MaxTime    == 4      \* clock ticks of a run
maxMessagesPerMinute == 2   \* 30 in client.go:27
rateLimitWindow      == 2   \* client.go:28: one minute, two clock ticks
idleTimeout          == 3   \* hub.go:18: 30 minutes, longer than the rate-limit window
maxConcurrentConnections == 2  \* 1000 in hub.go:12
maxMessageSize == 1024         \* client.go:24

\* the sessions, numbered in the order they are accepted
Clients == {1, 2, 3}
\* the connections of the runs in which two peers connect
Peers   == {1, 2}
Names   == {"a", "b"}
\* the names a presence list can carry: Names and a name with a character
\* that html.EscapeString rewrites
ListedNames == Names \cup {"a&b"}

\* ---- message.go ----
MessageTypeChat     == "chat"
MessageTypePrivate  == "private"
MessageTypeSystem   == "system"
MessageTypeUserList == "user_list"
MessageTypeError    == "error"
MessageTypeJoin     == "join"

NoUsers == [n \in ListedNames |-> 0]

\* Message struct; users is the multiset of names of a presence snapshot.
Message(type, from, to, content, users, error, ts) ==
    [type |-> type, from |-> from, to |-> to, content |-> content,
     users |-> users, error |-> error, ts |-> ts]

NoFrame == Message("", "", "", "", NoUsers, "", 0)

\* strings.TrimSpace on the strings the model uses
TrimSpace(s) == CASE s = " b " -> "b"
                  [] s = " "   -> ""
                  [] OTHER     -> s

\* a text of 1001 letters "a", as TestMessageSizeLimit sends
LongContent == "a x 1001"

\* len(s), in bytes
StrLen(s) == IF s = LongContent THEN 1001 ELSE Len(s)

\* html.EscapeString on the strings the model uses
EscapeString(s) == CASE s = "a&b" -> "a&amp;b"
                     [] OTHER     -> s

\* validateDisplayName: "" when the name is accepted, else the error
validateDisplayName(name) ==
    IF TrimSpace(name) = "" THEN "display name cannot be empty"
    ELSE IF StrLen(TrimSpace(name)) > 50 THEN "display name cannot exceed 50 characters"
    ELSE IF TrimSpace(name) = "<i>" THEN "display name cannot contain HTML tags"
    ELSE ""

\* validateMessageContent: "" when accepted, else the error
validateMessageContent(content) ==
    IF TrimSpace(content) = "" THEN "message content cannot be empty"
    ELSE IF StrLen(TrimSpace(content)) > 1000
         THEN "message content cannot exceed 1000 characters"
    ELSE ""

\* Message.Validate: "" when valid, else the error.  A frame that lists no
\* name stands for a frame without the users field.
Validate(m) ==
    IF m.type = "" THEN "message type is required"
    ELSE IF m.type \notin {MessageTypeChat, MessageTypePrivate, MessageTypeSystem,
                           MessageTypeUserList, MessageTypeError, MessageTypeJoin}
         THEN "invalid message type"
    ELSE IF m.type = MessageTypeChat THEN
         IF validateMessageContent(m.content) # "" THEN validateMessageContent(m.content)
         ELSE IF validateDisplayName(m.from) # "" THEN "chat message sender invalid"
         ELSE ""
    ELSE IF m.type = MessageTypePrivate THEN
         IF validateMessageContent(m.content) # "" THEN validateMessageContent(m.content)
         ELSE IF validateDisplayName(m.from) # "" THEN "private message sender invalid"
         ELSE IF m.to = "" THEN "private message must have recipient"
         ELSE IF validateDisplayName(m.to) # "" THEN "private message recipient invalid"
         ELSE IF m.from = m.to THEN "cannot send private message to yourself"
         ELSE ""
    ELSE IF m.type = MessageTypeJoin THEN
         IF validateDisplayName(m.content) # "" THEN "join message display name invalid"
         ELSE ""
    ELSE IF m.type = MessageTypeError THEN
         IF m.error = "" THEN "error message must have error field" ELSE ""
    ELSE IF m.type = MessageTypeUserList THEN
         IF m.users = NoUsers THEN "user_list message must have users field" ELSE ""
    ELSE ""

\* SanitizeInput without html.EscapeString
SanitizeInput_TrimsOnly(m) ==
    [m EXCEPT !.from = TrimSpace(m.from), !.to = TrimSpace(m.to),
              !.content = TrimSpace(m.content), !.error = TrimSpace(m.error)]

\* Message.SanitizeInput; the names of a users list of the model need no
\* escaping
SanitizeInput(m) ==
    [m EXCEPT !.from = EscapeString(TrimSpace(m.from)),
              !.to = EscapeString(TrimSpace(m.to)),
              !.content = EscapeString(TrimSpace(m.content)),
              !.error = EscapeString(TrimSpace(m.error))]

\* the size of the text frame that carries m: the JSON object with the type
\* and the fields that are not empty (the peer may leave out the timestamp)
FrameBytes(m) ==
    2 + 9 + StrLen(m.type)
      + (IF m.from = "" THEN 0 ELSE 10 + StrLen(m.from))
      + (IF m.to = "" THEN 0 ELSE 8 + StrLen(m.to))
      + (IF m.content = "" THEN 0 ELSE 13 + StrLen(m.content))
      + (IF m.error = "" THEN 0 ELSE 11 + StrLen(m.error))

\* Text frames a peer may send; Garbage is a frame MessageFromJSON rejects.
Garbage == Message("#not-json", "", "", "", NoUsers, "", 0)
\* the frames the peers send in Spec
HubInFrames ==
    { Garbage,
      Message(MessageTypeJoin, "", "", "a", NoUsers, "", 0),
      Message(MessageTypeJoin, "", "", " b ", NoUsers, "", 0),
      Message(MessageTypeChat, "zz", "", "hi", NoUsers, "", 0) }

\* ---- Go maps ----
MapGet(m, k)    == IF k \in DOMAIN m THEN m[k] ELSE ""
MapPut(m, k, v) == [x \in DOMAIN m \cup {k} |-> IF x = k THEN v ELSE m[x]]
MapDel(m, ks)   == [x \in DOMAIN m \ ks |-> m[x]]
EmptyMap        == [x \in {} |-> ""]

VARIABLES
    clients,        \* Hub.clients: set of registered sessions
    userList,       \* Hub.userList: session -> display name
    clientsByName,  \* Hub.clientsByName: display name -> session
    hubPc,          \* where the Hub.Run goroutine is
    hubDisplayName, \* displayName of the unregister case, while the hub is in it
    now,            \* time.Now()
    framesLeft,     \* inbound frames and directed-send requests still to come
    rpc,            \* ReadPump position of each session
    wpc,            \* WritePump position of each session
    displayName,    \* Client.displayName
    send,           \* Client.send: buffered frames
    sendClosed,     \* Client.send has been closed
    connClosed,     \* Client.conn has been closed
    pending,        \* the frame a pump is sending to Hub.broadcast
    lastActivity,   \* Client.lastActivity
    messageTimestamps, \* Client.messageTimestamps
    remaining,      \* the last result of Client.getRemainingRateLimit (-1: not called yet)
    wire,           \* the frames written to Client.conn that the peer has kept, in order
    recording,      \* the peers keep the frames they receive (as the test clients do)
    handled,        \* the frames of the broadcast events the hub has handled, in order
    stop            \* Hub.stop has been closed

vars == <<clients, userList, clientsByName, hubPc, hubDisplayName, now, framesLeft, rpc, wpc,
          displayName, send, sendClosed, connClosed, pending, lastActivity,
          messageTimestamps, remaining, wire, recording, handled, stop>>

hubVars  == <<clients, userList, clientsByName, hubPc, hubDisplayName>>
peerVars == <<wire, recording, handled>>

\* NewHub, before any connection is accepted
Init ==
    /\ clients = {}
    /\ userList = EmptyMap
    /\ clientsByName = EmptyMap
    /\ hubPc = "select"
    /\ hubDisplayName = ""
    /\ now = 0
    /\ framesLeft = MaxFrames
    /\ rpc = [c \in Clients |-> "none"]
    /\ wpc = [c \in Clients |-> "none"]
    /\ displayName = [c \in Clients |-> ""]
    /\ send = [c \in Clients |-> <<>>]
    /\ sendClosed = [c \in Clients |-> FALSE]
    /\ connClosed = [c \in Clients |-> FALSE]
    /\ pending = [c \in Clients |-> NoFrame]
    /\ lastActivity = [c \in Clients |-> 0]
    /\ messageTimestamps = [c \in Clients |-> <<>>]
    /\ remaining = [c \in Clients |-> -1]
    /\ wire = [c \in Clients |-> <<>>]
    /\ recording = FALSE
    /\ handled = <<>>
    /\ stop = FALSE

\* ---- client.go: rate limiter ----
\* the timestamps checkRateLimit keeps: those after now - rateLimitWindow
validTimestamps(c) ==
    SelectSeq(messageTimestamps[c], LAMBDA t : t > now - rateLimitWindow)

\* checkRateLimit with `>` for `>=` in the test of the limit
checkRateLimit_OffByOne(c) == Len(validTimestamps(c)) <= maxMessagesPerMinute

\* Client.checkRateLimit: TRUE when the send is allowed
checkRateLimit(c) == Len(validTimestamps(c)) < maxMessagesPerMinute

\* Client.getRemainingRateLimit
getRemainingRateLimit(c) ==
    IF maxMessagesPerMinute - Len(validTimestamps(c)) < 0 THEN 0
    ELSE maxMessagesPerMinute - Len(validTimestamps(c))

\* ---- frames the server builds ----
ErrorFrame(text)   == Message(MessageTypeError, "", "", "", NoUsers, text, now)
JoinedFrame(name)  == Message(MessageTypeSystem, "", "", name \o " has joined the chat", NoUsers, "", now)
LeftFrame(name)    == Message(MessageTypeSystem, "", "", name \o " has left the chat", NoUsers, "", now)
\* Hub.BroadcastUserList: one entry per session of userList
UserListFrame ==
    Message(MessageTypeUserList, "", "", "",
            [n \in ListedNames |-> Cardinality({c \in DOMAIN userList : userList[c] = n})],
            "", now)

\* ---- main.go: acceptor ----
\* Hub.CanAcceptNewConnection
CanAcceptNewConnection == Cardinality(clients) < maxConcurrentConnections

\* handleWebSocket: NewClient and the start of both pumps
Accept(c) ==
    /\ rpc[c] = "none"
    /\ \A d \in Clients : d < c => rpc[d] # "none"   \* sessions are numbered in the order they connect
    /\ CanAcceptNewConnection
    /\ rpc' = [rpc EXCEPT ![c] = "read"]
    /\ wpc' = [wpc EXCEPT ![c] = "run"]
    /\ lastActivity' = [lastActivity EXCEPT ![c] = now]
    /\ UNCHANGED <<hubVars, now, framesLeft, displayName, send, sendClosed,
                   connClosed, pending, messageTimestamps, remaining, peerVars, stop>>

\* ---- client.go: ReadPump ----
\* Client.sendErrorMessage, then `continue`.  A send on a closed channel
\* panics; the deferred function of ReadPump recovers and goes on to
\* unregister.
sendErrorMessage(c, text) ==
    /\ send' = [send EXCEPT ![c] =
                  IF ~sendClosed[c] /\ Len(send[c]) < QueueCap
                  THEN Append(send[c], ErrorFrame(text)) ELSE send[c]]
    /\ rpc' = [rpc EXCEPT ![c] = IF sendClosed[c] THEN "unreg_send" ELSE "read"]

\* the default case that hands the frame to the hub, as the chat case does
DispatchDefault_Broadcasts(c, f) ==
    /\ pending' = [pending EXCEPT ![c] = SanitizeInput([f EXCEPT !.ts = now])]
    /\ rpc' = [rpc EXCEPT ![c] = "chat_send"]
    /\ UNCHANGED <<userList, displayName, send, messageTimestamps>>

\* the default case of the switch on message.Type
DispatchDefault(c, f) ==
    /\ sendErrorMessage(c, "Unknown message type: " \o f.type)
    /\ UNCHANGED <<userList, displayName, pending, messageTimestamps>>

\* One iteration of the ReadPump loop on the frame f, up to the first
\* access to the hub.  conn.ReadMessage returns the frames that are within
\* the read limit.
ReadFrame(c, f) ==
    /\ rpc[c] = "read"
    /\ ~connClosed[c]
    /\ framesLeft > 0
    /\ FrameBytes(f) <= maxMessageSize
    /\ framesLeft' = framesLeft - 1
    /\ IF f = Garbage THEN
          /\ sendErrorMessage(c, "Invalid message format")
          /\ UNCHANGED <<userList, displayName, pending, lastActivity, messageTimestamps>>
       ELSE IF Validate(f) # "" THEN
          /\ sendErrorMessage(c, "Message validation failed: " \o Validate(f))
          /\ UNCHANGED <<userList, displayName, pending, lastActivity, messageTimestamps>>
       ELSE
          /\ lastActivity' = [lastActivity EXCEPT ![c] = now]
          /\ IF f.type = MessageTypeJoin THEN
                IF validateDisplayName(f.content) # "" THEN
                   /\ sendErrorMessage(c, "Display name error")
                   /\ UNCHANGED <<userList, displayName, pending, messageTimestamps>>
                ELSE
                   \* SetDisplayName, then RegisterClient up to h.userList[client] = displayName
                   /\ displayName' = [displayName EXCEPT ![c] = TrimSpace(f.content)]
                   /\ userList' = MapPut(userList, c, TrimSpace(f.content))
                   /\ rpc' = [rpc EXCEPT ![c] = "reg_byname"]
                   /\ UNCHANGED <<send, pending, messageTimestamps>>
             ELSE IF f.type = MessageTypeChat THEN
                IF displayName[c] = "" THEN
                   /\ sendErrorMessage(c, "Must join chat before sending messages")
                   /\ UNCHANGED <<userList, displayName, pending, messageTimestamps>>
                ELSE IF ~checkRateLimit(c) THEN
                   /\ messageTimestamps' = [messageTimestamps EXCEPT ![c] = validTimestamps(c)]
                   /\ sendErrorMessage(c, "Rate limit exceeded")
                   /\ UNCHANGED <<userList, displayName, pending>>
                ELSE
                   /\ messageTimestamps' = [messageTimestamps EXCEPT ![c] = Append(validTimestamps(c), now)]
                   /\ IF validateMessageContent(f.content) # "" THEN
                         /\ sendErrorMessage(c, "Message validation failed: "
                                                   \o validateMessageContent(f.content))
                         /\ UNCHANGED <<userList, displayName, pending>>
                      ELSE
                         /\ pending' = [pending EXCEPT ![c] =
                                SanitizeInput([f EXCEPT !.from = displayName[c], !.ts = now])]
                         /\ rpc' = [rpc EXCEPT ![c] = "chat_send"]
                         /\ UNCHANGED <<userList, displayName, send>>
             ELSE DispatchDefault(c, f)
    /\ UNCHANGED <<clients, clientsByName, hubPc, hubDisplayName, now, wpc, sendClosed,
                   connClosed, peerVars, stop>>
    \* the chat case calls getRemainingRateLimit after checkRateLimit, for its log line
    /\ remaining' = IF /\ f # Garbage /\ Validate(f) = "" /\ f.type = MessageTypeChat
                       /\ displayName[c] # ""
                       /\ (~checkRateLimit(c) \/ validateMessageContent(f.content) = "")
                    THEN [remaining EXCEPT ![c] = getRemainingRateLimit(c)']
                    ELSE remaining

\* conn.ReadMessage returns an error (peer close, deadline, oversize frame,
\* closed connection): break, and the deferred function runs.
ReadError(c) ==
    /\ rpc[c] = "read"
    /\ rpc' = [rpc EXCEPT ![c] = "unreg_send"]
    /\ UNCHANGED <<hubVars, now, framesLeft, wpc, displayName, send, sendClosed,
                   connClosed, pending, lastActivity, messageTimestamps, remaining, peerVars, stop>>

\* conn.ReadMessage on a frame above the read limit set by SetReadLimit: it
\* returns an error, and the loop breaks as for any read error.
ReadOversize(c, f) ==
    /\ rpc[c] = "read"
    /\ ~connClosed[c]
    /\ framesLeft > 0
    /\ FrameBytes(f) > maxMessageSize
    /\ framesLeft' = framesLeft - 1
    /\ rpc' = [rpc EXCEPT ![c] = "unreg_send"]
    /\ UNCHANGED <<hubVars, now, wpc, displayName, send, sendClosed,
                   connClosed, pending, lastActivity, messageTimestamps, remaining, peerVars, stop>>

\* Hub.RegisterClient: h.UpdateClientName(client, displayName)
UpdateClientName(c) ==
    /\ rpc[c] = "reg_byname"
    /\ clientsByName' = MapPut(clientsByName, displayName[c], c)
    /\ rpc' = [rpc EXCEPT ![c] = "reg_send"]
    /\ UNCHANGED <<clients, userList, hubPc, hubDisplayName, now, framesLeft, wpc,
                   displayName, send, sendClosed, connClosed, pending, lastActivity,
                   messageTimestamps, remaining, peerVars, stop>>

\* Hub.RegisterClient: BroadcastUserList reads h.userList (after the sleep)
SnapshotUserList(c) ==
    /\ rpc[c] = "ul_snap"
    /\ pending' = [pending EXCEPT ![c] = UserListFrame]
    /\ rpc' = [rpc EXCEPT ![c] = "ul_send"]
    /\ UNCHANGED <<hubVars, now, framesLeft, wpc, displayName, send, sendClosed,
                   connClosed, lastActivity, messageTimestamps, remaining, peerVars, stop>>

\* ---- hub.go: Hub.Run ----
\* case client := <-h.register, sent by RegisterClient; the sender then
\* builds the join system message.
HubRecvRegister(c) ==
    /\ hubPc = "select"
    /\ rpc[c] = "reg_send"
    /\ clients' = clients \cup {c}
    /\ pending' = [pending EXCEPT ![c] = JoinedFrame(displayName[c])]
    /\ rpc' = [rpc EXCEPT ![c] = "join_bcast"]
    /\ UNCHANGED <<userList, clientsByName, hubPc, hubDisplayName, now, framesLeft, wpc,
                   displayName, send, sendClosed, connClosed, lastActivity,
                   messageTimestamps, remaining, peerVars, stop>>

\* The sets of sessions the broadcast loop can reach.  `range h.clients`
\* visits the sessions in an unspecified order; a send on a closed channel
\* panics, also inside a select with a default case, and the recover of the
\* broadcast case ends the loop there.
VisitedSets ==
    IF \E c \in clients : sendClosed[c]
    THEN SUBSET {c \in clients : ~sendClosed[c]}
    ELSE {clients}

\* the sessions of V the loop finds with a full queue
Evicted(V) == {c \in V : Len(send[c]) >= QueueCap}

\* the broadcast loop that puts the frame at the head of every queue but
\* that of the first session
BroadcastLoop_HeadForOthers(frame, V) ==
    /\ send' = [c \in Clients |->
                  IF c \in V \ Evicted(V)
                  THEN IF c = 1 THEN Append(send[c], frame) ELSE <<frame>> \o send[c]
                  ELSE send[c]]
    /\ sendClosed' = [c \in Clients |-> sendClosed[c] \/ c \in Evicted(V)]
    /\ clients' = clients \ Evicted(V)
    /\ userList' = MapDel(userList, Evicted(V))
    /\ clientsByName' = MapDel(clientsByName, {MapGet(userList, c) : c \in Evicted(V)})

\* the broadcast loop that puts the frame at the head of the queues
BroadcastLoop_Prepends(frame, V) ==
    /\ send' = [c \in Clients |->
                  IF c \in V \ Evicted(V) THEN <<frame>> \o send[c] ELSE send[c]]
    /\ sendClosed' = [c \in Clients |-> sendClosed[c] \/ c \in Evicted(V)]
    /\ clients' = clients \ Evicted(V)
    /\ userList' = MapDel(userList, Evicted(V))
    /\ clientsByName' = MapDel(clientsByName, {MapGet(userList, c) : c \in Evicted(V)})

\* The broadcast loop over the visited sessions V: enqueue, or on a full
\* queue close(client.send) and delete the session from the three maps.
BroadcastLoop(frame, V) ==
    /\ send' = [c \in Clients |->
                  IF c \in V \ Evicted(V) THEN Append(send[c], frame) ELSE send[c]]
    /\ sendClosed' = [c \in Clients |-> sendClosed[c] \/ c \in Evicted(V)]
    /\ clients' = clients \ Evicted(V)
    /\ userList' = MapDel(userList, Evicted(V))
    /\ clientsByName' = MapDel(clientsByName, {MapGet(userList, c) : c \in Evicted(V)})

\* case message := <-h.broadcast, sent by BroadcastMessage from a ReadPump
HubRecvBroadcast(c) ==
    /\ hubPc = "select"
    /\ rpc[c] \in {"join_bcast", "ul_send", "chat_send"}
    /\ \E V \in VisitedSets : BroadcastLoop(pending[c], V)
    /\ pending' = [pending EXCEPT ![c] = NoFrame]
    /\ rpc' = [rpc EXCEPT ![c] = IF rpc[c] = "join_bcast" THEN "ul_snap" ELSE "read"]
    /\ handled' = IF recording THEN Append(handled, pending[c]) ELSE handled
    /\ UNCHANGED <<hubPc, hubDisplayName, now, framesLeft, wpc, displayName, connClosed,
                   lastActivity, messageTimestamps, remaining, wire, recording, stop>>

\* the unregister case without the test `if _, ok := h.clients[client]; ok`
HubRecvUnregister_NoGuard(c) ==
    /\ hubPc = "select"
    /\ rpc[c] = "unreg_send"
    /\ clients' = clients \ {c}
    /\ sendClosed' = [sendClosed EXCEPT ![c] = TRUE]
    /\ userList' = MapDel(userList, {c})
    /\ clientsByName' = MapDel(clientsByName, {MapGet(userList, c)})
    /\ hubDisplayName' = MapGet(userList, c)
    /\ hubPc' = IF MapGet(userList, c) # "" THEN "unreg_leave" ELSE "unreg_userlist"
    /\ rpc' = [rpc EXCEPT ![c] = "done"]
    /\ connClosed' = [connClosed EXCEPT ![c] = TRUE]
    /\ UNCHANGED <<now, framesLeft, wpc, displayName, send, pending,
                   lastActivity, messageTimestamps, remaining, peerVars, stop>>

\* case client := <-h.unregister, sent by the deferred function of ReadPump,
\* which then closes the connection.  For a registered session the handler
\* goes on to h.BroadcastMessage / h.BroadcastUserList, which send on
\* h.broadcast from the hub goroutine itself.
HubRecvUnregister(c) ==
    /\ hubPc = "select"
    /\ rpc[c] = "unreg_send"
    /\ IF c \in clients THEN
          /\ clients' = clients \ {c}
          /\ sendClosed' = [sendClosed EXCEPT ![c] = TRUE]
          /\ userList' = MapDel(userList, {c})
          /\ clientsByName' = MapDel(clientsByName, {MapGet(userList, c)})
          /\ hubDisplayName' = MapGet(userList, c)
          /\ hubPc' = IF MapGet(userList, c) # "" THEN "unreg_leave" ELSE "unreg_userlist"
       ELSE UNCHANGED <<clients, sendClosed, userList, clientsByName, hubPc, hubDisplayName>>
    /\ rpc' = [rpc EXCEPT ![c] = "done"]
    /\ connClosed' = [connClosed EXCEPT ![c] = TRUE]
    /\ UNCHANGED <<now, framesLeft, wpc, displayName, send, pending,
                   lastActivity, messageTimestamps, remaining, peerVars, stop>>

\* the sessions cleanupIdleConnections collects
idleClients == {c \in clients : now - lastActivity[c] > idleTimeout}

\* case <-h.cleanupTicker.C: cleanupIdleConnections.  For the first idle
\* session it calls h.UnregisterClient, a send on h.unregister from the hub
\* goroutine itself.
cleanupIdleConnections ==
    /\ hubPc = "select"
    /\ hubPc' = IF idleClients = {} THEN "select" ELSE "cleanup_unregister"
    /\ UNCHANGED <<clients, userList, clientsByName, hubDisplayName, now, framesLeft,
                   rpc, wpc, displayName, send, sendClosed, connClosed, pending,
                   lastActivity, messageTimestamps, remaining, peerVars, stop>>

\* ---- client.go: WritePump ----
\* websocket.CloseMessage with an empty payload
CloseMessage == Message("close", "", "", "", NoUsers, "", 0)

\* WriteFrame that writes `message` again where the drain loop has
\* `queuedMessage`
WriteFrame_RepeatsFirst(c) ==
    /\ wpc[c] = "run"
    /\ ~connClosed[c]
    /\ Len(send[c]) > 0
    /\ send' = [send EXCEPT ![c] = <<>>]
    /\ wire' = IF recording
               THEN [wire EXCEPT ![c] = @ \o [i \in 1..Len(send[c]) |-> send[c][1]]]
               ELSE wire
    /\ UNCHANGED <<hubVars, now, framesLeft, rpc, wpc, displayName, sendClosed,
                   connClosed, pending, lastActivity, messageTimestamps, remaining,
                   recording, handled, stop>>

\* case message, ok := <-c.send with ok: the frame is written, and then the
\* n = len(c.send) frames queued behind it; a write on an open connection
\* succeeds
WriteFrame(c) ==
    /\ wpc[c] = "run"
    /\ ~connClosed[c]
    /\ Len(send[c]) > 0
    /\ send' = [send EXCEPT ![c] = <<>>]
    /\ wire' = IF recording THEN [wire EXCEPT ![c] = @ \o send[c]] ELSE wire
    /\ UNCHANGED <<hubVars, now, framesLeft, rpc, wpc, displayName, sendClosed,
                   connClosed, pending, lastActivity, messageTimestamps, remaining,
                   recording, handled, stop>>

\* case message, ok := <-c.send with !ok: close frame (its error is not
\* looked at), return, and the deferred c.conn.Close()
WriteClose(c) ==
    /\ wpc[c] = "run"
    /\ sendClosed[c]
    /\ send[c] = <<>>
    /\ wpc' = [wpc EXCEPT ![c] = "done"]
    /\ connClosed' = [connClosed EXCEPT ![c] = TRUE]
    /\ wire' = IF recording /\ ~connClosed[c]
               THEN [wire EXCEPT ![c] = Append(@, CloseMessage)] ELSE wire
    /\ UNCHANGED <<hubVars, now, framesLeft, rpc, displayName, send, sendClosed,
                   pending, lastActivity, messageTimestamps, remaining, recording, handled, stop>>

\* case message, ok := <-c.send with ok, on a connection that has been
\* closed: the frame is taken from the queue, WriteMessage fails, return
WriteFail(c) ==
    /\ wpc[c] = "run"
    /\ connClosed[c]
    /\ Len(send[c]) > 0
    /\ send' = [send EXCEPT ![c] = Tail(send[c])]
    /\ wpc' = [wpc EXCEPT ![c] = "done"]
    /\ UNCHANGED <<hubVars, now, framesLeft, rpc, displayName, sendClosed, connClosed,
                   pending, lastActivity, messageTimestamps, remaining, peerVars, stop>>

\* An idle period elapses.  It is far longer than any handler takes, so it
\* does not fall inside a handler that can go on: every pump is waiting for a
\* frame, or waiting for a hub that is not at its select.
Tick ==
    /\ now < MaxTime
    /\ \A c \in Clients : rpc[c] \in {"none", "read", "done"} \/ hubPc # "select"
    /\ now' = now + 1
    /\ UNCHANGED <<hubVars, framesLeft, rpc, wpc, displayName, send, sendClosed,
                   connClosed, pending, lastActivity, messageTimestamps, remaining, peerVars, stop>>

\* the steps of the hub and of the pumps
Step(c) ==
    \/ UpdateClientName(c)
    \/ SnapshotUserList(c)
    \/ HubRecvRegister(c)
    \/ HubRecvBroadcast(c)
    \/ HubRecvUnregister(c)
    \/ WriteFrame(c)
    \/ WriteClose(c)
    \/ WriteFail(c)

Next ==
    \/ \E c \in Peers : Accept(c)
    \/ \E c \in Clients, f \in HubInFrames : ReadFrame(c, f)
    \/ \E c \in Clients : ReadError(c)
    \/ \E c \in Clients : Step(c)

\* the runs in which no idle period elapses (the clock stands still, and a
\* cleanup tick finds no idle session)
Spec == Init /\ [][Next]_vars

\* ---- runs with a clock, for the properties of progress ----
LiveInFrames == { Message(MessageTypeJoin, "", "", "a", NoUsers, "", 0) }

LiveInit ==
    /\ clients = {}
    /\ userList = EmptyMap
    /\ clientsByName = EmptyMap
    /\ hubPc = "select"
    /\ hubDisplayName = ""
    /\ now = 0
    /\ framesLeft = LiveFrames
    /\ rpc = [c \in Clients |-> "none"]
    /\ wpc = [c \in Clients |-> "none"]
    /\ displayName = [c \in Clients |-> ""]
    /\ send = [c \in Clients |-> <<>>]
    /\ sendClosed = [c \in Clients |-> FALSE]
    /\ connClosed = [c \in Clients |-> FALSE]
    /\ pending = [c \in Clients |-> NoFrame]
    /\ lastActivity = [c \in Clients |-> 0]
    /\ messageTimestamps = [c \in Clients |-> <<>>]
    /\ remaining = [c \in Clients |-> -1]
    /\ wire = [c \in Clients |-> <<>>]
    /\ recording = FALSE
    /\ handled = <<>>
    /\ stop = FALSE

LiveNext ==
    \/ \E c \in Peers : Accept(c)
    \/ \E c \in Clients, f \in LiveInFrames : ReadFrame(c, f)
    \/ \E c \in Clients : ReadError(c)
    \/ \E c \in Clients : Step(c)
    \/ cleanupIdleConnections
    \/ Tick

\* The Go scheduler runs every goroutine that can take a step, and the hub
\* select takes a ready case; peers and the clock are not obliged to act.
LiveSpec ==
    /\ LiveInit /\ [][LiveNext]_vars
    /\ \A c \in Clients : WF_vars(Step(c))
    /\ \A c \in Clients : WF_vars(connClosed[c] /\ ReadError(c))
    /\ WF_vars(cleanupIdleConnections)


\* ---- runs with a shutdown ----
\* Hub.Stop, called once by main: the ticker is stopped and h.stop closed
Stop ==
    /\ ~stop
    /\ stop' = TRUE
    /\ UNCHANGED <<hubVars, now, framesLeft, rpc, wpc, displayName, send, sendClosed,
                   connClosed, pending, lastActivity, messageTimestamps, remaining,
                   peerVars>>

\* case <-h.stop: the ticker is stopped and Hub.Run returns
HubStop ==
    /\ hubPc = "select"
    /\ stop
    /\ hubPc' = "stopped"
    /\ UNCHANGED <<clients, userList, clientsByName, hubDisplayName, now, framesLeft,
                   rpc, wpc, displayName, send, sendClosed, connClosed, pending,
                   lastActivity, messageTimestamps, remaining, peerVars, stop>>

\* a tick that the ticker sent before it was stopped may still be received
StopNext ==
    \/ LiveNext
    \/ Stop
    \/ HubStop

\* as LiveSpec; the select of the hub takes the stop case when it stays ready
StopSpec ==
    /\ LiveInit /\ [][StopNext]_vars
    /\ \A c \in Clients : WF_vars(Step(c))
    /\ \A c \in Clients : WF_vars(connClosed[c] /\ ReadError(c))
    /\ WF_vars(cleanupIdleConnections)
    /\ WF_vars(HubStop)

\* ---- hub.go: directed (private) messages ----
\* the private frame a caller hands to the hub
PrivateFrame(from, to) == Message(MessageTypePrivate, from, to, "hi", NoUsers, "", now)

\* Hub.GetClientByName: the `ok` result
HasClientByName(name) == name \in DOMAIN clientsByName

\* `select { case c.send <- frame: default: }` on the open queue of c
TrySend(q, c, frame) ==
    IF Len(q[c]) < QueueCap THEN [q EXCEPT ![c] = Append(q[c], frame)] ELSE q

\* The error Hub.SendPrivateMessage returns: "" for nil, "panic" when it
\* does not return because a send on a closed queue panics.
SendPrivateMessageErr(from, to) ==
    IF ~HasClientByName(to) THEN "recipient not found or offline"
    ELSE IF sendClosed[clientsByName[to]] THEN "panic"
    ELSE IF Len(send[clientsByName[to]]) >= QueueCap
         THEN "failed to deliver message to recipient"
    ELSE IF HasClientByName(from) /\ sendClosed[clientsByName[from]] THEN "panic"
    ELSE ""

\* The queues when Hub.SendPrivateMessage returns or panics: the frame on
\* the recipient's queue, then the echo on the sender's queue if it has room.
SendPrivateMessage(from, to, frame) ==
    IF \/ ~HasClientByName(to)
       \/ sendClosed[clientsByName[to]]
       \/ Len(send[clientsByName[to]]) >= QueueCap
    THEN send
    ELSE IF HasClientByName(from) /\ ~sendClosed[clientsByName[from]]
         THEN TrySend([send EXCEPT ![clientsByName[to]] = Append(@, frame)],
                      clientsByName[from], frame)
         ELSE [send EXCEPT ![clientsByName[to]] = Append(@, frame)]

\* case req := <-h.privateMessage: SendPrivateMessage, and on an error the
\* error frame for the sender; a panic is recovered and ends the handler.
\* The request is made by a caller that holds the hub (no pump sends one).
HubRecvPrivateMessage(from, to) ==
    /\ hubPc = "select"
    /\ framesLeft > 0
    /\ framesLeft' = framesLeft - 1
    /\ send' =
          IF /\ SendPrivateMessageErr(from, to) \notin {"", "panic"}
             /\ HasClientByName(from)
             /\ ~sendClosed[clientsByName[from]]
          THEN TrySend(send, clientsByName[from],
                       ErrorFrame("Failed to send private message: "
                                     \o SendPrivateMessageErr(from, to)))
          ELSE SendPrivateMessage(from, to, PrivateFrame(from, to))
    /\ UNCHANGED <<hubVars, now, rpc, wpc, displayName, sendClosed,
                   connClosed, pending, lastActivity, messageTimestamps, remaining, peerVars, stop>>

\* the frames the peers send in PrivSpec
PrivInFrames ==
    { Message(MessageTypeJoin, "", "", "a", NoUsers, "", 0),
      Message(MessageTypeJoin, "", "", " b ", NoUsers, "", 0),
      Message(MessageTypePrivate, "a", "b", "hi", NoUsers, "", 0) }

PrivInit ==
    /\ clients = {}
    /\ userList = EmptyMap
    /\ clientsByName = EmptyMap
    /\ hubPc = "select"
    /\ hubDisplayName = ""
    /\ now = 0
    /\ framesLeft = PrivFrames
    /\ rpc = [c \in Clients |-> "none"]
    /\ wpc = [c \in Clients |-> "none"]
    /\ displayName = [c \in Clients |-> ""]
    /\ send = [c \in Clients |-> <<>>]
    /\ sendClosed = [c \in Clients |-> FALSE]
    /\ connClosed = [c \in Clients |-> FALSE]
    /\ pending = [c \in Clients |-> NoFrame]
    /\ lastActivity = [c \in Clients |-> 0]
    /\ messageTimestamps = [c \in Clients |-> <<>>]
    /\ remaining = [c \in Clients |-> -1]
    /\ wire = [c \in Clients |-> <<>>]
    /\ recording = FALSE
    /\ handled = <<>>
    /\ stop = FALSE

\* the peers stay connected: a session leaves only by eviction
PrivNext ==
    \/ \E c \in Peers : Accept(c)
    \/ \E c \in Clients, f \in PrivInFrames : ReadFrame(c, f)
    \/ \E c \in Clients : Step(c)
    \/ \E from \in Names : \E to \in Names \ {from} : HubRecvPrivateMessage(from, to)

\* the runs with directed sends between different names, the clock standing still
PrivSpec == PrivInit /\ [][PrivNext]_vars

\* ---- runs with a clock, for the rate limiter ----
\* getRemainingRateLimit that records the call as checkRateLimit does
GetRemaining_Records(c) ==
    /\ rpc[c] # "none"
    /\ remaining' = [remaining EXCEPT ![c] = getRemainingRateLimit(c)]
    /\ messageTimestamps' = [messageTimestamps EXCEPT ![c] = Append(validTimestamps(c), now)]
    /\ UNCHANGED <<hubVars, now, framesLeft, rpc, wpc, displayName, send, sendClosed,
                   connClosed, pending, lastActivity, peerVars, stop>>

\* a call of Client.getRemainingRateLimit by a holder of the session (the
\* pump calls it inside ReadFrame)
GetRemaining(c) ==
    /\ rpc[c] # "none"
    /\ remaining' = [remaining EXCEPT ![c] = getRemainingRateLimit(c)]
    /\ UNCHANGED <<hubVars, now, framesLeft, rpc, wpc, displayName, send, sendClosed,
                   connClosed, pending, lastActivity, messageTimestamps, peerVars, stop>>

\* the frames the peers send in RateSpec
RateInFrames == { Message(MessageTypeChat, "zz", "", "hi", NoUsers, "", 0) }

\* two sessions have joined, as "a" and "b", and have been sent their frames
RateInit ==
    /\ clients = {1, 2}
    /\ userList = [c \in {1, 2} |-> IF c = 1 THEN "a" ELSE "b"]
    /\ clientsByName = [n \in {"a", "b"} |-> IF n = "a" THEN 1 ELSE 2]
    /\ hubPc = "select"
    /\ hubDisplayName = ""
    /\ now = 0
    /\ framesLeft = RateFrames
    /\ rpc = [c \in Clients |-> IF c \in Peers THEN "read" ELSE "none"]
    /\ wpc = [c \in Clients |-> IF c \in Peers THEN "run" ELSE "none"]
    /\ displayName = [c \in Clients |-> IF c = 1 THEN "a" ELSE IF c = 2 THEN "b" ELSE ""]
    /\ send = [c \in Clients |-> <<>>]
    /\ sendClosed = [c \in Clients |-> FALSE]
    /\ connClosed = [c \in Clients |-> FALSE]
    /\ pending = [c \in Clients |-> NoFrame]
    /\ lastActivity = [c \in Clients |-> 0]
    /\ messageTimestamps = [c \in Clients |-> <<>>]
    /\ remaining = [c \in Clients |-> -1]
    /\ wire = [c \in Clients |-> <<>>]
    /\ recording = FALSE
    /\ handled = <<>>
    /\ stop = FALSE

\* the peers stay connected and send chat frames while the clock runs; the
\* runs are shorter than the idle timeout
RateNext ==
    \/ \E c \in Clients, f \in RateInFrames : ReadFrame(c, f)
    \/ \E c \in Clients : HubRecvBroadcast(c)
    \/ \E c \in Clients : HubRecvUnregister(c)
    \/ \E c \in Clients : WriteFrame(c)
    \/ \E c \in Clients : WriteClose(c)
    \/ \E c \in Clients : WriteFail(c)
    \/ \E c \in Clients : GetRemaining(c)
    \/ Tick

RateSpec == RateInit /\ [][RateNext]_vars

\* ---- runs with frames the server denies ----
\* a frame without a type, which Message.Validate rejects
NoTypeFrame == Message("", "", "", "hi", NoUsers, "", 0)

\* the frames the peers send in ErrSpec: undecodable, invalid, a join with
\* an invalid and with a valid name, a type the pump has no case for, a chat
ErrInFrames ==
    { Garbage,
      NoTypeFrame,
      Message(MessageTypeJoin, "", "", "<i>", NoUsers, "", 0),
      Message(MessageTypeJoin, "", "", "a", NoUsers, "", 0),
      Message(MessageTypeSystem, "", "", "hi", NoUsers, "", 0),
      Message(MessageTypeChat, "zz", "", "hi", NoUsers, "", 0) }

ErrInit ==
    /\ clients = {}
    /\ userList = EmptyMap
    /\ clientsByName = EmptyMap
    /\ hubPc = "select"
    /\ hubDisplayName = ""
    /\ now = 0
    /\ framesLeft = ErrFrames
    /\ rpc = [c \in Clients |-> "none"]
    /\ wpc = [c \in Clients |-> "none"]
    /\ displayName = [c \in Clients |-> ""]
    /\ send = [c \in Clients |-> <<>>]
    /\ sendClosed = [c \in Clients |-> FALSE]
    /\ connClosed = [c \in Clients |-> FALSE]
    /\ pending = [c \in Clients |-> NoFrame]
    /\ lastActivity = [c \in Clients |-> 0]
    /\ messageTimestamps = [c \in Clients |-> <<>>]
    /\ remaining = [c \in Clients |-> -1]
    /\ wire = [c \in Clients |-> <<>>]
    /\ recording = FALSE
    /\ handled = <<>>
    /\ stop = FALSE

\* the peers stay connected
ErrNext ==
    \/ \E c \in Peers : Accept(c)
    \/ \E c \in Clients, f \in ErrInFrames : ReadFrame(c, f)
    \/ \E c \in Clients : Step(c)
    \/ \E from \in Names : \E to \in Names \ {from} : HubRecvPrivateMessage(from, to)

ErrSpec == ErrInit /\ [][ErrNext]_vars

\* ---- runs in which three peers connect ----
AcceptInFrames == { Message(MessageTypeJoin, "", "", "a", NoUsers, "", 0) }

AcceptInit ==
    /\ clients = {}
    /\ userList = EmptyMap
    /\ clientsByName = EmptyMap
    /\ hubPc = "select"
    /\ hubDisplayName = ""
    /\ now = 0
    /\ framesLeft = AcceptFrames
    /\ rpc = [c \in Clients |-> "none"]
    /\ wpc = [c \in Clients |-> "none"]
    /\ displayName = [c \in Clients |-> ""]
    /\ send = [c \in Clients |-> <<>>]
    /\ sendClosed = [c \in Clients |-> FALSE]
    /\ connClosed = [c \in Clients |-> FALSE]
    /\ pending = [c \in Clients |-> NoFrame]
    /\ lastActivity = [c \in Clients |-> 0]
    /\ messageTimestamps = [c \in Clients |-> <<>>]
    /\ remaining = [c \in Clients |-> -1]
    /\ wire = [c \in Clients |-> <<>>]
    /\ recording = FALSE
    /\ handled = <<>>
    /\ stop = FALSE

AcceptNext ==
    \/ \E c \in Clients : Accept(c)
    \/ \E c \in Clients, f \in AcceptInFrames : ReadFrame(c, f)
    \/ \E c \in Clients : ReadError(c)
    \/ \E c \in Clients : Step(c)

AcceptSpec == AcceptInit /\ [][AcceptNext]_vars

\* ---- runs with peers that keep what they receive ----
WriteInFrames ==
    { Message(MessageTypeJoin, "", "", "a", NoUsers, "", 0),
      Message(MessageTypeChat, "zz", "", "hi", NoUsers, "", 0) }

WriteInit ==
    /\ clients = {}
    /\ userList = EmptyMap
    /\ clientsByName = EmptyMap
    /\ hubPc = "select"
    /\ hubDisplayName = ""
    /\ now = 0
    /\ framesLeft = WriteFrames
    /\ rpc = [c \in Clients |-> "none"]
    /\ wpc = [c \in Clients |-> "none"]
    /\ displayName = [c \in Clients |-> ""]
    /\ send = [c \in Clients |-> <<>>]
    /\ sendClosed = [c \in Clients |-> FALSE]
    /\ connClosed = [c \in Clients |-> FALSE]
    /\ pending = [c \in Clients |-> NoFrame]
    /\ lastActivity = [c \in Clients |-> 0]
    /\ messageTimestamps = [c \in Clients |-> <<>>]
    /\ remaining = [c \in Clients |-> -1]
    /\ wire = [c \in Clients |-> <<>>]
    /\ recording = TRUE
    /\ handled = <<>>
    /\ stop = FALSE

WriteNext ==
    \/ \E c \in Peers : Accept(c)
    \/ \E c \in Clients, f \in WriteInFrames : ReadFrame(c, f)
    \/ \E c \in Clients : ReadError(c)
    \/ \E c \in Clients : Step(c)

WriteSpec == WriteInit /\ [][WriteNext]_vars

\* ---- runs with chat frames that carry a sender and a timestamp ----
\* a join under a name that html.EscapeString rewrites, and two chat frames
\* that differ only in the sender and the timestamp the peer has put in
ChatInFrames ==
    { Message(MessageTypeJoin, "", "", "a&b", NoUsers, "", 0),
      Message(MessageTypeChat, "zz", "", "hi", NoUsers, "", 0),
      Message(MessageTypeChat, "a", "", "hi", NoUsers, "", 9) }

ChatInit ==
    /\ clients = {}
    /\ userList = EmptyMap
    /\ clientsByName = EmptyMap
    /\ hubPc = "select"
    /\ hubDisplayName = ""
    /\ now = 0
    /\ framesLeft = ChatFrames
    /\ rpc = [c \in Clients |-> "none"]
    /\ wpc = [c \in Clients |-> "none"]
    /\ displayName = [c \in Clients |-> ""]
    /\ send = [c \in Clients |-> <<>>]
    /\ sendClosed = [c \in Clients |-> FALSE]
    /\ connClosed = [c \in Clients |-> FALSE]
    /\ pending = [c \in Clients |-> NoFrame]
    /\ lastActivity = [c \in Clients |-> 0]
    /\ messageTimestamps = [c \in Clients |-> <<>>]
    /\ remaining = [c \in Clients |-> -1]
    /\ wire = [c \in Clients |-> <<>>]
    /\ recording = FALSE
    /\ handled = <<>>
    /\ stop = FALSE

\* the peers stay connected while the clock runs
ChatNext ==
    \/ \E c \in Peers : Accept(c)
    \/ \E c \in Clients, f \in ChatInFrames : ReadFrame(c, f)
    \/ \E c \in Clients : ReadError(c)
    \/ \E c \in Clients : Step(c)
    \/ now < OrderTime /\ Tick

ChatSpec == ChatInit /\ [][ChatNext]_vars

\* ---- runs in which the peers number the chat frames they send ----
\* the texts of the chat frames, in the order in which the peers send them
Contents == <<"m1", "m2", "m3", "m4", "m5">>

\* the number of the chat frame with the text s
Num(s) == CHOOSE i \in 1..Len(Contents) : Contents[i] = s

\* the chat frame a peer sends next
NextChat ==
    Message(MessageTypeChat, "zz", "", Contents[OrderFrames - framesLeft + 1], NoUsers, "", 0)

\* two sessions have joined, as "a" and "b"; from here on the peers keep the
\* frames they receive
OrderInit ==
    /\ clients = {1, 2}
    /\ userList = [c \in {1, 2} |-> IF c = 1 THEN "a" ELSE "b"]
    /\ clientsByName = [n \in {"a", "b"} |-> IF n = "a" THEN 1 ELSE 2]
    /\ hubPc = "select"
    /\ hubDisplayName = ""
    /\ now = 0
    /\ framesLeft = OrderFrames
    /\ rpc = [c \in Clients |-> IF c \in Peers THEN "read" ELSE "none"]
    /\ wpc = [c \in Clients |-> IF c \in Peers THEN "run" ELSE "none"]
    /\ displayName = [c \in Clients |-> IF c = 1 THEN "a" ELSE IF c = 2 THEN "b" ELSE ""]
    /\ send = [c \in Clients |-> <<>>]
    /\ sendClosed = [c \in Clients |-> FALSE]
    /\ connClosed = [c \in Clients |-> FALSE]
    /\ pending = [c \in Clients |-> NoFrame]
    /\ lastActivity = [c \in Clients |-> 0]
    /\ messageTimestamps = [c \in Clients |-> <<>>]
    /\ remaining = [c \in Clients |-> -1]
    /\ wire = [c \in Clients |-> <<>>]
    /\ recording = TRUE
    /\ handled = <<>>
    /\ stop = FALSE

\* the peers send chat frames while the clock runs, and may disconnect
OrderNext ==
    \/ \E c \in Clients : framesLeft > 0 /\ ReadFrame(c, NextChat)
    \/ \E c \in Clients : ReadError(c)
    \/ \E c \in Clients : HubRecvBroadcast(c)
    \/ \E c \in Clients : HubRecvUnregister(c)
    \/ \E c \in Clients : WriteFrame(c)
    \/ \E c \in Clients : WriteClose(c)
    \/ \E c \in Clients : WriteFail(c)
    \/ now < OrderTime /\ Tick

OrderSpec == OrderInit /\ [][OrderNext]_vars

\* ---- runs with frames above the read limit ----
\* a join, and the chat frame of TestMessageSizeLimit
SizeInFrames ==
    { Message(MessageTypeJoin, "", "", "a", NoUsers, "", 0),
      Message(MessageTypeChat, "zz", "", LongContent, NoUsers, "", 0) }

SizeInit ==
    /\ clients = {}
    /\ userList = EmptyMap
    /\ clientsByName = EmptyMap
    /\ hubPc = "select"
    /\ hubDisplayName = ""
    /\ now = 0
    /\ framesLeft = SizeFrames
    /\ rpc = [c \in Clients |-> "none"]
    /\ wpc = [c \in Clients |-> "none"]
    /\ displayName = [c \in Clients |-> ""]
    /\ send = [c \in Clients |-> <<>>]
    /\ sendClosed = [c \in Clients |-> FALSE]
    /\ connClosed = [c \in Clients |-> FALSE]
    /\ pending = [c \in Clients |-> NoFrame]
    /\ lastActivity = [c \in Clients |-> 0]
    /\ messageTimestamps = [c \in Clients |-> <<>>]
    /\ remaining = [c \in Clients |-> -1]
    /\ wire = [c \in Clients |-> <<>>]
    /\ recording = FALSE
    /\ handled = <<>>
    /\ stop = FALSE

\* the peers do not disconnect by themselves
SizeNext ==
    \/ \E c \in Peers : Accept(c)
    \/ \E c \in Clients, f \in SizeInFrames : ReadFrame(c, f)
    \/ \E c \in Clients, f \in SizeInFrames : ReadOversize(c, f)
    \/ \E c \in Clients : Step(c)

\* the Go scheduler runs every goroutine that can take a step, and the hub
\* select takes a ready case; the peers are not obliged to send
SizeSpec ==
    /\ SizeInit /\ [][SizeNext]_vars
    /\ \A c \in Clients : WF_vars(Step(c))

\* ---- runs with frames of the types the server itself sends ----
\* the frame of the test "Unknown Message Type"
UnknownTypeFrame == Message("unknown_type", "", "", "test", NoUsers, "", 0)

\* frames of the types system, user_list and error, as a peer may send them
ServerTypeInFrames ==
    { Message(MessageTypeSystem, "", "", "hi", NoUsers, "", 0),
      Message(MessageTypeUserList, "", "", "hi", [NoUsers EXCEPT !["b"] = 1], "", 0),
      Message(MessageTypeError, "", "", "", NoUsers, "hi", 0) }

ProtoInFrames ==
    { Message(MessageTypeJoin, "", "", "a", NoUsers, "", 0), UnknownTypeFrame }
       \cup ServerTypeInFrames

ProtoInit ==
    /\ clients = {}
    /\ userList = EmptyMap
    /\ clientsByName = EmptyMap
    /\ hubPc = "select"
    /\ hubDisplayName = ""
    /\ now = 0
    /\ framesLeft = ProtoFrames
    /\ rpc = [c \in Clients |-> "none"]
    /\ wpc = [c \in Clients |-> "none"]
    /\ displayName = [c \in Clients |-> ""]
    /\ send = [c \in Clients |-> <<>>]
    /\ sendClosed = [c \in Clients |-> FALSE]
    /\ connClosed = [c \in Clients |-> FALSE]
    /\ pending = [c \in Clients |-> NoFrame]
    /\ lastActivity = [c \in Clients |-> 0]
    /\ messageTimestamps = [c \in Clients |-> <<>>]
    /\ remaining = [c \in Clients |-> -1]
    /\ wire = [c \in Clients |-> <<>>]
    /\ recording = FALSE
    /\ handled = <<>>
    /\ stop = FALSE

\* the peers stay connected
ProtoNext ==
    \/ \E c \in Peers : Accept(c)
    \/ \E c \in Clients, f \in ProtoInFrames : ReadFrame(c, f)
    \/ \E c \in Clients : Step(c)

ProtoSpec == ProtoInit /\ [][ProtoNext]_vars

\* ---- properties ----
\* a system frame with the text `content` is on the outbound queue of c
QueuedSystem(c, content) ==
    \E i \in 1..Len(send[c]) :
        send[c][i].type = MessageTypeSystem /\ send[c][i].content = content

\* a user_list frame that lists the name n is on the outbound queue of c
QueuedUserListWith(c, n) ==
    \E i \in 1..Len(send[c]) :
        send[c][i].type = MessageTypeUserList /\ send[c][i].users[n] > 0

\* C1: a broadcast event enqueues its frame once on the queue of every
\* registered session whose queue is open and not full, and leaves the queue
\* of every unregistered session as it was.
C1_BroadcastReachesEveryOpenSession ==
    [][\A s \in Clients : HubRecvBroadcast(s) =>
          \A c \in Clients :
             /\ (c \in clients /\ ~sendClosed[c] /\ Len(send[c]) < QueueCap)
                   => send'[c] = Append(send[c], pending[s])
             /\ c \notin clients => send'[c] = send[c]]_vars

\* C2: the hub, once inside a handler, returns to its select, and a pump
\* that is sending a request to the hub gets it accepted.
C2_HubReturnsToSelect ==
    /\ [](hubPc # "select" => <>(hubPc = "select"))
    /\ \A c \in Clients :
          [](rpc[c] \in {"reg_send", "join_bcast", "ul_send", "chat_send", "unreg_send"}
               => <>(rpc[c] \in {"read", "done"}))

\* C3: a registered session whose queue a broadcast finds full or closed is,
\* after that broadcast event, in none of the three maps.
C3_BroadcastEvictsFullOrClosed ==
    [][\A s \in Clients : HubRecvBroadcast(s) =>
          \A c \in clients :
             (sendClosed[c] \/ Len(send[c]) >= QueueCap) =>
                /\ c \notin clients'
                /\ c \notin DOMAIN userList'
                /\ MapGet(userList, c) \notin DOMAIN clientsByName']_vars

\* C4: a broadcast handled while a registered session has a queue that is
\* filled to capacity and closed leaves the hub at its select, and every
\* other registered session with room in its queue gets the frame.
C4_BroadcastPastClosedQueue ==
    [][\A s \in Clients, d \in Clients :
          (/\ HubRecvBroadcast(s)
           /\ d \in clients /\ sendClosed[d] /\ Len(send[d]) = QueueCap) =>
             /\ hubPc' = "select"
             /\ \A c \in clients \ {d} :
                   (~sendClosed[c] /\ Len(send[c]) < QueueCap)
                      => send'[c] = Append(send[c], pending[s])]_vars

\* C5: after a failure raised while the hub handles an event (a send on a
\* closed queue in a broadcast, the close of a closed queue in an unregister)
\* the hub is back at its select, ready for the next event.
C5_LoopSurvivesFailure ==
    [][\A s \in Clients :
          (\/ HubRecvBroadcast(s) /\ \E c \in clients : sendClosed[c]
           \/ HubRecvUnregister(s) /\ s \in clients /\ sendClosed[s])
             => hubPc' = "select"]_vars

\* C6: after the hub handles the unregister of a registered session, the
\* session is in neither the session set nor the session-to-name map, its
\* current name (the one the map records, and the one the session holds) is
\* not in the name index, and its queue is closed.
C6_UnregisterRemoves ==
    [][\A s \in Clients : (HubRecvUnregister(s) /\ s \in clients) =>
          /\ s \notin clients'
          /\ s \notin DOMAIN userList'
          /\ MapGet(userList, s) \notin DOMAIN clientsByName'
          /\ displayName[s] \notin DOMAIN clientsByName'
          /\ sendClosed'[s]]_vars

\* C7: when a named session is unregistered, every session that stays
\* registered gets the "<name> has left the chat" frame and then a user_list
\* frame on its queue.
C7_LeaveAnnounced ==
    \A r \in Clients, n \in Names :
        [](hubPc = "unreg_leave" /\ hubDisplayName = n /\ r \in clients
             => <>(QueuedSystem(r, LeftFrame(n).content)))

\* C8: the unregister of a session that is not registered changes nothing
\* in the hub: the maps, the queues and their open/closed state stay as they
\* are, and the hub does not start a leave broadcast.
C8_UnregisterUnknownIsNoOp ==
    [][\A s \in Clients : (HubRecvUnregister(s) /\ s \notin clients) =>
          UNCHANGED <<clients, userList, clientsByName, hubPc, hubDisplayName,
                      send, sendClosed, pending>>]_vars

\* a session a broadcast evicted has been unregistered after that, and the
\* hub is at its select
C8_Witness ==
    \E c \in Clients :
        rpc[c] = "done" /\ hubPc = "select" /\ sendClosed[c] /\ c \notin clients

\* C9: a pending session that has sent a valid join gets registered and
\* indexed under the trimmed name, and gets the "<name> has joined the chat"
\* frame and then a user_list frame with the name.
C9_JoinCompletes ==
    \A c \in Clients :
        /\ [](rpc[c] = "reg_send" /\ c \notin clients =>
                <>(/\ c \in clients
                   /\ MapGet(userList, c) = displayName[c]
                   /\ displayName[c] \in DOMAIN clientsByName
                   /\ clientsByName[displayName[c]] = c))
        /\ [](rpc[c] = "reg_send" /\ c \notin clients =>
                <>(QueuedSystem(c, JoinedFrame(displayName[c]).content)))
        /\ [](rpc[c] = "reg_send" /\ c \notin clients /\ displayName[c] \in Names =>
                <>(QueuedUserListWith(c, displayName[c])))

\* C10: the registered sessions are exactly the sessions of the
\* session-to-name map.
C10_ClientsEqualUserList == clients = DOMAIN userList

\* C11: every name of the name index is the current name of some session
\* of the session-to-name map, also after a second join under a new name and
\* after an unregister or an eviction.
C11_IndexedNamesAreHeld ==
    \A n \in DOMAIN clientsByName : \E c \in DOMAIN userList : userList[c] = n

\* C12: the session set, the session-to-name map and the name index change
\* only in steps of the hub event loop (its register, unregister and
\* broadcast handlers); the pumps change none of them.
C12_OnlyHubMutatesMaps ==
    [][(clients' # clients \/ userList' # userList \/ clientsByName' # clientsByName)
          => \E s \in Clients :
                HubRecvRegister(s) \/ HubRecvBroadcast(s) \/ HubRecvUnregister(s)]_vars

\* the queue of c is open and not full
HasRoom(c) == ~sendClosed[c] /\ Len(send[c]) < QueueCap

\* C13: a directed send between two different indexed names whose sessions
\* have room puts the private frame on the recipient's queue, then the same
\* frame, as the echo, on the sender's queue, and changes no other queue.
C13_DirectedSendDelivers ==
    [][\A from \in Names : \A to \in Names \ {from} :
          (/\ HubRecvPrivateMessage(from, to)
           /\ HasClientByName(from) /\ HasClientByName(to)
           /\ HasRoom(clientsByName[from]) /\ HasRoom(clientsByName[to])) =>
             \A c \in Clients :
                send'[c] = send[c]
                   \o (IF c = clientsByName[to] THEN <<PrivateFrame(from, to)>> ELSE <<>>)
                   \o (IF c = clientsByName[from] THEN <<PrivateFrame(from, to)>> ELSE <<>>)]_vars

\* C14: when the inbound pump of a joined session that is within its rate
\* limit reads a valid private frame for an indexed name, it hands the frame
\* to the hub for the directed send and queues no error frame for the sender.
C14_PrivateFrameDispatched ==
    [][\A c \in Clients, f \in PrivInFrames :
          (/\ ReadFrame(c, f)
           /\ f.type = MessageTypePrivate /\ Validate(f) = ""
           /\ displayName[c] # "" /\ checkRateLimit(c)
           /\ HasClientByName(f.to)) =>
             /\ pending'[c].type = MessageTypePrivate
             /\ pending'[c].to = f.to
             /\ send'[c] = send[c]]_vars

\* the error frame the hub builds for the sender of a failed directed send
PrivateErrorFrame(err) == ErrorFrame("Failed to send private message: " \o err)

\* C15: a directed send from an indexed name to a name that is not in the
\* index fails with the not-found error, puts one error frame on the
\* sender's queue and changes no other queue.
C15_NotFoundAlwaysReported ==
    [][\A from \in Names : \A to \in Names \ {from} :
          (/\ HubRecvPrivateMessage(from, to)
           /\ HasClientByName(from) /\ ~HasClientByName(to)) =>
             /\ SendPrivateMessageErr(from, to) = "recipient not found or offline"
             /\ \A c \in Clients :
                   send'[c] = IF c = clientsByName[from]
                              THEN Append(send[c], PrivateErrorFrame("recipient not found or offline"))
                              ELSE send[c]]_vars

\* C16: a directed send whose recipient is indexed but has a full or closed
\* queue fails with the delivery error, not the not-found error: the sender
\* (indexed, with room in its queue) gets one error frame with that error,
\* and no private frame is put on any queue.
C16_DeliveryFailureReported ==
    [][\A from \in Names : \A to \in Names \ {from} :
          (/\ HubRecvPrivateMessage(from, to)
           /\ HasClientByName(to) /\ ~HasRoom(clientsByName[to])
           /\ HasClientByName(from) /\ HasRoom(clientsByName[from])) =>
             /\ SendPrivateMessageErr(from, to) = "failed to deliver message to recipient"
             /\ \A c \in Clients :
                   send'[c] = IF c = clientsByName[from]
                              THEN Append(send[c], PrivateErrorFrame("failed to deliver message to recipient"))
                              ELSE send[c]]_vars

\* the recorded sends of c that lie inside the trailing window
InWindow(c) ==
    {i \in 1..Len(messageTimestamps[c]) : messageTimestamps[c][i] > now - rateLimitWindow}

\* C17: at every instant the sends of a session that the rate limiter has
\* accepted and that lie inside the trailing window are at most the cap.
C17_AtMostCapInWindow ==
    \A c \in Clients : Cardinality(InWindow(c)) <= maxMessagesPerMinute

\* a session has the full cap of accepted sends inside the window, made at
\* different times
C17_Witness ==
    \E c \in Clients :
        /\ Cardinality(InWindow(c)) = maxMessagesPerMinute
        /\ \E i, j \in InWindow(c) : messageTimestamps[c][i] < messageTimestamps[c][j]

\* the rate limiter denies the chat frame: nothing is handed to the hub and
\* no send is recorded
RateDenied(c) ==
    /\ pending'[c] = pending[c]
    /\ rpc'[c] # "chat_send"
    /\ Len(messageTimestamps'[c]) <= Len(messageTimestamps[c])
    /\ Cardinality(InWindow(c))' = maxMessagesPerMinute

\* the chat frame f is accepted after every recorded send has aged out: it
\* is recorded and handed to the hub for the broadcast
RateAcceptedAgain(c, f) ==
    /\ rpc'[c] = "chat_send"
    /\ pending'[c] = [f EXCEPT !.from = displayName[c], !.ts = now]
    /\ messageTimestamps'[c] = <<now>>

\* every recorded send of c is older than the window
AllAgedOut(c) ==
    messageTimestamps[c] # <<>> /\ InWindow(c) = {}

\* C18: with the cap of sends inside the window a further chat frame is
\* denied, with a rate-limit error frame on the session's queue; once the
\* recorded sends have aged out a chat frame is accepted again.
C18_DeniedWithErrorFrame ==
    [][\A c \in Clients, f \in RateInFrames :
          /\ (ReadFrame(c, f) /\ Cardinality(InWindow(c)) = maxMessagesPerMinute) =>
                /\ RateDenied(c)
                /\ send'[c] = Append(send[c], ErrorFrame("Rate limit exceeded"))
          /\ (ReadFrame(c, f) /\ AllAgedOut(c)) => RateAcceptedAgain(c, f)]_vars

\* the cap minus the recorded sends inside the window, floored at zero
CapLeft(c) ==
    IF Cardinality(InWindow(c)) >= maxMessagesPerMinute THEN 0
    ELSE maxMessagesPerMinute - Cardinality(InWindow(c))

\* C19: a call of getRemainingRateLimit returns the cap minus the recorded
\* sends inside the window, floored at zero, leaves the recorded sends as
\* they are, and a second call made right after it returns the same value.
C19_RemainingIsStable ==
    [][\A c \in Clients : GetRemaining(c) =>
          /\ remaining'[c] = CapLeft(c)
          /\ messageTimestamps' = messageTimestamps
          /\ getRemainingRateLimit(c)' = remaining'[c]]_vars

\* a call has returned a value below the cap while one recorded send lies
\* inside the window and another one has aged out of it
C19_Witness ==
    \E c \in Clients :
        /\ remaining[c] = CapLeft(c)
        /\ InWindow(c) # {}
        /\ Cardinality(InWindow(c)) < Len(messageTimestamps[c])

\* what a chat frame from a session without a display name leaves as it
\* was: nothing is handed to the hub, no rate-limit slot is used, the hub
\* state and the other queues are unchanged, the pump reads on and the
\* connection stays open
NotJoinedRejected(c) ==
    /\ pending' = pending
    /\ rpc'[c] = "read"
    /\ messageTimestamps' = messageTimestamps
    /\ UNCHANGED hubVars
    /\ ~connClosed'[c] /\ ~sendClosed'[c]
    /\ \A d \in Clients \ {c} : send'[d] = send[d]

\* C20: a chat frame from a session that has no display name puts one error
\* frame on that session's queue, and changes nothing else.
C20_NotJoinedAlwaysAnswered ==
    [][\A c \in Clients, f \in HubInFrames :
          (/\ ReadFrame(c, f)
           /\ f.type = MessageTypeChat /\ Validate(f) = "" /\ displayName[c] = "") =>
             /\ NotJoinedRejected(c)
             /\ send'[c] = Append(send[c], ErrorFrame("Must join chat before sending messages"))]_vars

\* one frame has been added at the end of the queue of c, an error frame
ErrorFrameQueued(c) ==
    /\ Len(send'[c]) = Len(send[c]) + 1
    /\ SubSeq(send'[c], 1, Len(send[c])) = send[c]
    /\ send'[c][Len(send'[c])].type = MessageTypeError

\* C21: a frame that does not decode, or that fails the validation, puts
\* one error frame on the queue of the session that sent it, changes nothing
\* in the hub and no other queue, and the pump reads on with the connection
\* open (so that it takes a later join).
C21_BadFrameAnswered ==
    [][\A c \in Clients, f \in ErrInFrames :
          (ReadFrame(c, f) /\ (f = Garbage \/ Validate(f) # "")) =>
             /\ send'[c] = Append(send[c],
                     ErrorFrame(IF f = Garbage THEN "Invalid message format"
                                ELSE "Message validation failed: " \o Validate(f)))
             /\ \A d \in Clients \ {c} : send'[d] = send[d]
             /\ UNCHANGED hubVars
             /\ rpc'[c] = "read" /\ ~connClosed'[c]]_vars

\* the pump of c denies the frame f
Denied(c, f) ==
    \/ f = Garbage
    \/ Validate(f) # ""
    \/ f.type \notin {MessageTypeJoin, MessageTypeChat}
    \/ f.type = MessageTypeChat /\ displayName[c] = ""
    \/ f.type = MessageTypeChat /\ Cardinality(InWindow(c)) >= maxMessagesPerMinute

\* the directed send from `from` to `to` fails: no such recipient, or no
\* room in the recipient's queue
DirectedSendFails(to) ==
    ~HasClientByName(to) \/ ~HasRoom(clientsByName[to])

\* C22: every frame the pump denies, and every failed directed send of an
\* indexed sender, adds an error frame to the sender's queue; a directed
\* send that is delivered adds no error frame to any queue, whether or not
\* the echo is queued.
C22_EveryDenialAnswered ==
    [][/\ \A c \in Clients, f \in ErrInFrames :
             (ReadFrame(c, f) /\ Denied(c, f)) => ErrorFrameQueued(c)
       /\ \A from \in Names : \A to \in Names \ {from} :
             /\ (/\ HubRecvPrivateMessage(from, to)
                 /\ HasClientByName(from) /\ DirectedSendFails(to))
                   => ErrorFrameQueued(clientsByName[from])
             /\ (HubRecvPrivateMessage(from, to) /\ ~DirectedSendFails(to))
                   => \A c \in Clients : ~ErrorFrameQueued(c)]_vars

\* C23: a join with an invalid display name puts one error frame on the
\* session's queue and registers nothing: the session set, the two maps and
\* the session's display name stay as they are, and no frame is handed to
\* the hub for a broadcast.
C23_InvalidJoinRejected ==
    [][\A c \in Clients, f \in ErrInFrames :
          (/\ ReadFrame(c, f)
           /\ f.type = MessageTypeJoin /\ validateDisplayName(f.content) # "") =>
             /\ ErrorFrameQueued(c)
             /\ UNCHANGED <<clients, userList, clientsByName, displayName, pending>>
             /\ rpc'[c] \notin {"reg_byname", "reg_send", "join_bcast", "ul_snap", "ul_send"}]_vars

\* the sessions the acceptor has created whose inbound pump has not returned
LiveSessions == {c \in Clients : rpc[c] \notin {"none", "done"}}

\* C24: the live sessions are never more than the connection ceiling, and
\* the acceptor creates a session only while they are fewer than the ceiling.
C24_LiveWithinCeiling ==
    /\ [](Cardinality(LiveSessions) <= maxConcurrentConnections)
    /\ [][\A c \in Clients :
             Accept(c) => Cardinality(LiveSessions) < maxConcurrentConnections]_vars

\* C25: once the inbound pump of a session has left its loop, its
\* unregister request is received by the hub and the pump closes the
\* connection; the pump, once returned, makes no second request.
C25_PumpExitUnregisters ==
    /\ \A c \in Clients :
          [](rpc[c] = "unreg_send" => <>(rpc[c] = "done" /\ connClosed[c]))
    /\ [][\A c \in Clients : rpc[c] = "done" => rpc'[c] = "done"]_vars

\* s is an initial part of t
IsPrefix(s, t) == Len(s) <= Len(t) /\ SubSeq(t, 1, Len(s)) = s

\* the text frames of w (all but the close frame)
TextFrames(w) == SelectSeq(w, LAMBDA m : m # CloseMessage)

\* the frames put on the queue of c so far that no failed write has lost:
\* those written, followed by those still queued
Enqueued(c) == TextFrames(wire[c]) \o send[c]

\* C26: once the hub has closed the queue of a session, the frames queued
\* before the close are written in order (none is added, none is lost), and
\* the outbound pump returns only with the queue empty, the close frame
\* written last and the connection closed; no frame follows a close frame.
C26_ClosedQueueDrained ==
    /\ [][\A c \in Clients : sendClosed[c] => Enqueued(c)' = Enqueued(c)]_vars
    /\ [](\A c \in Clients :
            (sendClosed[c] /\ wpc[c] = "done") =>
               /\ send[c] = <<>>
               /\ wire[c] # <<>> /\ wire[c][Len(wire[c])] = CloseMessage
               /\ connClosed[c])
    /\ [](\A c \in Clients : \A i \in 1..Len(wire[c]) :
            wire[c][i] = CloseMessage => i = Len(wire[c]))

\* C27: in every step in which no write fails, the frames written so far
\* followed by the frames still queued stay as they were, but for frames
\* added at the end: frames are written in the order of the queue, none
\* twice and none skipped.
C27_WritesInQueueOrder ==
    [][\A c \in Clients : ~WriteFail(c) => IsPrefix(Enqueued(c), Enqueued(c)')]_vars

\* a session has been written three frames, the first two of them
\* different, and has a frame queued
C27_Witness ==
    \E c \in Clients :
        /\ Len(wire[c]) >= 3 /\ wire[c][1] # wire[c][2]
        /\ send[c] # <<>> /\ wpc[c] = "run"

\* C28: after a cleanup tick that finds idle sessions, each of them gets
\* unregistered and its connection closed and the hub is back at its
\* select; the tick unregisters no session with recent activity.
C28_IdleSessionsEvicted ==
    /\ \A c \in Clients :
          [](hubPc = "cleanup_unregister" /\ c \in idleClients
               => <>(c \notin clients /\ connClosed[c] /\ hubPc = "select"))
    /\ [][cleanupIdleConnections => \A c \in clients \ idleClients : c \in clients']_vars

\* every peer has joined and no session has been evicted
AllJoined ==
    \A c \in Peers : rpc[c] = "read" /\ displayName[c] # "" /\ ~sendClosed[c]

\* every peer has disconnected: its inbound pump has left its loop
AllDisconnected ==
    \A c \in Peers : rpc[c] \in {"unreg_send", "done"}

\* C29: when the peers have all joined, the registered count
\* (GetClientCount) and the length of the presence list (GetConnectedUsers)
\* are the number of peers; once they have all disconnected, the hub gets
\* to a registered count of 0 and an empty presence list.
C29_CountsSettle ==
    /\ [](AllJoined => /\ Cardinality(clients) = Cardinality(Peers)
                       /\ Cardinality(DOMAIN userList) = Cardinality(Peers))
    /\ [](AllDisconnected => <>(clients = {} /\ DOMAIN userList = {}))

\* the hub handles an event
HubHandles ==
    \/ \E c \in Clients : HubRecvRegister(c) \/ HubRecvBroadcast(c) \/ HubRecvUnregister(c)
    \/ cleanupIdleConnections

\* C30: after Hub.Stop the event loop returns, and once it has returned it
\* handles no event; Hub.Stop itself changes neither the session set, nor
\* the two maps, nor a queue, nor a connection.
C30_StopEndsLoop ==
    /\ [](stop => <>(hubPc = "stopped"))
    /\ [][hubPc = "stopped" => (hubPc' = "stopped" /\ ~HubHandles)]_vars
    /\ [][Stop => UNCHANGED <<clients, userList, clientsByName, send, sendClosed,
                             connClosed>>]_vars

\* the chat frame the pump of c hands to the hub for the frame f, from the
\* fields of f other than its sender and its timestamp
ChatStamp(c, f, from) ==
    Message(MessageTypeChat, from, EscapeString(TrimSpace(f.to)),
            EscapeString(TrimSpace(f.content)), f.users,
            EscapeString(TrimSpace(f.error)), now)

\* C31 as stated: the chat frame a pump hands to the hub, and every chat
\* frame the hub broadcasts, has the display name of the sending session as
\* its sender.
C31_ChatCarriesName ==
    [][/\ \A c \in Clients, f \in ChatInFrames :
             (ReadFrame(c, f) /\ rpc'[c] = "chat_send")
                => pending'[c] = ChatStamp(c, f, displayName[c])
       /\ \A s \in Clients :
             (HubRecvBroadcast(s) /\ pending[s].type = MessageTypeChat)
                => pending[s].from = displayName[s]]_vars

\* C31, amended: the chat frame a pump hands to the hub has the
\* HTML-escaped display name of the session as its sender and the server
\* time of the acceptance as its timestamp, whatever sender and timestamp
\* the peer has put in; every chat frame the hub broadcasts has the escaped
\* name of its sending session and a server time that is not in the future.
C31_ChatCarriesEscapedName ==
    [][/\ \A c \in Clients, f \in ChatInFrames :
             (ReadFrame(c, f) /\ rpc'[c] = "chat_send")
                => pending'[c] = ChatStamp(c, f, EscapeString(displayName[c]))
       /\ \A s \in Clients :
             (HubRecvBroadcast(s) /\ pending[s].type = MessageTypeChat)
                => /\ pending[s].from = EscapeString(displayName[s])
                   /\ pending[s].ts <= now]_vars

\* a chat frame of the session named "a&b", accepted after the clock has
\* moved, is on a queue
C31_Witness ==
    \E c \in Clients : \E i \in 1..Len(send[c]) :
        /\ send[c][i].type = MessageTypeChat
        /\ send[c][i].from = "a&amp;b"
        /\ send[c][i].ts > 0

\* the chat frames of q that carry the sender n, in the order of q
ChatsFrom(q, n) == SelectSeq(q, LAMBDA m : m.type = MessageTypeChat /\ m.from = n)

\* C32: on the way to every recipient (written to its connection, or still
\* on its queue) the chat frames of one joined session are in the order in
\* which the session sent them, with server timestamps that do not decrease.
C32_ChatsArriveInSendOrder ==
    \A r \in Clients, n \in Names :
        \A i, j \in 1..Len(ChatsFrom(Enqueued(r), n)) :
            i < j => /\ Num(ChatsFrom(Enqueued(r), n)[i].content)
                          < Num(ChatsFrom(Enqueued(r), n)[j].content)
                     /\ ChatsFrom(Enqueued(r), n)[i].ts <= ChatsFrom(Enqueued(r), n)[j].ts

\* the peer of session 2 has received two chat frames of session 1,
\* accepted at different times, and a chat frame of its own
C32_Witness ==
    /\ Len(ChatsFrom(TextFrames(wire[2]), "a")) >= 2
    /\ ChatsFrom(TextFrames(wire[2]), "a")[1].ts < ChatsFrom(TextFrames(wire[2]), "a")[2].ts
    /\ Len(ChatsFrom(TextFrames(wire[2]), "b")) >= 1

C34_LongContentAnswered ==
    [][\A c \in Clients, f \in SizeInFrames :
          (/\ ReadFrame(c, f) \/ ReadOversize(c, f)
           /\ f.type = MessageTypeChat /\ StrLen(TrimSpace(f.content)) > 1000
           /\ displayName[c] # "" /\ HasRoom(c)) =>
             /\ ErrorFrameQueued(c)
             /\ send'[c][Len(send'[c])].error
                   = "Message validation failed: message content cannot exceed 1000 characters"
             /\ rpc'[c] = "read" /\ ~connClosed'[c]]_vars

\* the error frame m tells of a type the server does not know
ReportsUnknownType(m) ==
    /\ m.type = MessageTypeError
    /\ m.error \in {"Unknown message type: unknown_type",
                     "Message validation failed: invalid message type"}

\* C35: a frame of a type that is not a message type adds one error frame
\* that tells of the unknown type to the queue of the session that sent it;
\* nothing is handed to the hub, no other queue changes, and the pump reads
\* on with the connection open.
C35_UnknownTypeAnswered ==
    [][\A c \in Clients :
          ReadFrame(c, UnknownTypeFrame) =>
             /\ ErrorFrameQueued(c)
             /\ ReportsUnknownType(send'[c][Len(send'[c])])
             /\ pending' = pending
             /\ \A d \in Clients \ {c} : send'[d] = send[d]
             /\ rpc'[c] = "read" /\ ~connClosed'[c]]_vars

\* the frame m is one of the system, user_list and error frames a peer has
\* sent, whatever timestamp it carries
FromPeer(m) == [m EXCEPT !.ts = 0] \in ServerTypeInFrames

\* C40: a frame of type system, user_list or error read from a peer is not
\* handed to the hub and changes neither the hub nor the queue of another
\* session; no such frame is ever on a queue or on its way to the hub, and
\* the system frames on the queues are the join and leave frames the server
\* builds.
C40_ServerTypesNotForwarded ==
    /\ [][\A c \in Clients, f \in ServerTypeInFrames :
             ReadFrame(c, f) =>
                /\ pending' = pending
                /\ UNCHANGED hubVars
                /\ \A d \in Clients \ {c} : send'[d] = send[d]]_vars
    /\ [](\A c \in Clients :
            /\ ~FromPeer(pending[c])
            /\ \A i \in 1..Len(send[c]) :
                  /\ ~FromPeer(send[c][i])
                  /\ send[c][i].type = MessageTypeSystem =>
                        \E n \in ListedNames :
                           send[c][i].content \in {JoinedFrame(n).content, LeftFrame(n).content})

\* a peer has sent a system frame and has its error frame on the queue,
\* while another session is registered and has frames on its queue
C40_Witness ==
    \E c \in Clients, d \in clients :
        /\ c # d /\ send[d] # <<>>
        /\ \E i \in 1..Len(send[c]) : send[c][i].error = "Unknown message type: system"

\* In this step a frame is sent on a queue that has been closed (by the
\* error reply of a pump, by the broadcast loop, by a directed send), or a
\* closed queue is closed again (by the unregister case).  The cleanup tick
\* does not get as far as Client.Close: it stays in h.UnregisterClient.
SendOnClosed ==
    \/ \E c \in Clients, f \in ErrInFrames :
          ReadFrame(c, f) /\ sendClosed[c] /\ rpc'[c] = "unreg_send"
    \/ \E s \in Clients : HubRecvBroadcast(s) /\ \E c \in clients : sendClosed[c]
    \/ \E s \in Clients : HubRecvUnregister(s) /\ s \in clients /\ sendClosed[s]
    \/ \E from \in Names : \E to \in Names \ {from} :
          HubRecvPrivateMessage(from, to) /\ SendPrivateMessageErr(from, to) = "panic"

\* C36: no step sends a frame on a closed outbound queue or closes a closed
\* outbound queue.
C36_NoSendOnClosedQueue == [][~SendOnClosed]_vars

\* C37: a session that is out of the session set with its queue closed
\* stays out of the session set, gets no entry in the session-to-name map,
\* and no name of the name index is pointed at it.
C37_RemovedStaysOut ==
    [][\A c \in Clients : (sendClosed[c] /\ c \notin clients) =>
          /\ c \notin clients'
          /\ c \in DOMAIN userList' => (c \in DOMAIN userList /\ userList'[c] = userList[c])
          /\ \A n \in DOMAIN clientsByName' :
                clientsByName'[n] = c => (n \in DOMAIN clientsByName /\ clientsByName[n] = c)]_vars

\* C38: while no registration is under way, the name of every session of
\* the session-to-name map is in the name index, and the index maps it to a
\* registered session that the map lists under that name.
C38_ListedNamesIndexed ==
    (\A d \in Clients : rpc[d] \notin {"reg_byname", "reg_send"}) =>
       \A c \in DOMAIN userList :
          /\ HasClientByName(userList[c])
          /\ clientsByName[userList[c]] \in clients
          /\ MapGet(userList, clientsByName[userList[c]]) = userList[c]

\* the frames the hub fans out to every session
IsBroadcastFrame(m) == m.type \in {MessageTypeChat, MessageTypeSystem, MessageTypeUserList}

\* the broadcast frames written to the connection of session c
Received(c) == SelectSeq(TextFrames(wire[c]), IsBroadcastFrame)

\* the frame x stands somewhere before the frame y in the sequence q
Before(q, x, y) == \E i, j \in 1..Len(q) : i < j /\ q[i] = x /\ q[j] = y

\* C39: two different broadcast frames that one session has received in
\* some order, and that another session has received too, were received by
\* the other session in the same order, and the hub handled their broadcast
\* events in that order.
C39_SameBroadcastOrder ==
    \A c, d \in Clients : \A rc \in {Received(c)}, rd \in {Received(d)} :
        \A i, j \in 1..Len(rc) :
            (/\ i < j
             /\ rc[i] # rc[j]
             /\ \E k, l \in 1..Len(rd) : rd[k] = rc[i] /\ rd[l] = rc[j])
            => /\ Before(rd, rc[i], rc[j])
               /\ ~Before(rd, rc[j], rc[i])
               /\ Before(handled, rc[i], rc[j])
               /\ ~Before(handled, rc[j], rc[i])

\* the peers of both sessions have received the same two chat frames, one
\* sent by each session
C39_Witness ==
    \E x, y \in {handled[i] : i \in 1..Len(handled)} :
        /\ x.from = "a" /\ y.from = "b"
        /\ \A c \in Peers : Before(Received(c), x, y) \/ Before(Received(c), y, x)

====
